---- MODULE Spec2Model ----
(***************************************************************************)
(* Model of the conversation stage orchestrator of backend/agent_telugu.py *)
(* (class NxtWaveOnboardingAgent): the two event handlers                  *)
(* on_user_turn_completed and on_data_received, the payment transition     *)
(* they share, and the collaborators they call (reply dispatch, knowledge  *)
(* lookup, notification publish).                                           *)
(*                                                                         *)
(* A handler runs as one action.  What it did is kept in `effects`, the    *)
(* ordered log of the calls and stage writes of the event handled last;    *)
(* `pre` holds stage and choice from before that event and `ev` the event. *)
(* A collaborator call may raise: the outcome of every call is an input of *)
(* the event (env).  Strings the code inspects character by character      *)
(* (transcripts, keywords) are sequences of one-character strings.         *)
(***************************************************************************)
EXTENDS Naturals, Sequences, FiniteSets

\* ------------------------------------------------------------------ bounds

\* A transcript of the model is at most MaxWords words joined by blanks.
MaxWords == 2

\* The words transcripts are made of: a keyword of the first and of the
\* second group, a keyword of the third in upper case, a word that merely
\* contains a keyword ("emi" in "premium") and ends in a question mark, the
\* two halves of the keyword "one time", and a question with no keyword.
Words ==
    { <<"c", "a", "r", "d">>,
      <<"f", "u", "l", "l">>,
      <<"E", "M", "I">>,
      <<"p", "r", "e", "m", "i", "u", "m", "?">>,
      <<"o", "n", "e">>,
      <<"t", "i", "m", "e">>,
      <<"w", "h", "y", "?">> }

RECURSIVE TranscriptsOf(_)
TranscriptsOf(n) ==
    IF n = 0 THEN { <<>> }
    ELSE LET shorter == TranscriptsOf(n - 1)
         IN  shorter \cup Words
                 \cup { t \o <<" ">> \o w : t \in shorter \ { <<>> }, w \in Words }

Transcripts == TranscriptsOf(MaxWords)

\* ---------------------------------------------------------- python values

\* Python's None: an unset attribute, dict.get() of a missing key.
NoneVal == "<None>"

\* A key the JSON object does not carry.
Absent == "<absent>"

\* Truthiness of a str | None value (`if choice`, `if next_stage`,
\* `if agent_message`): None and the empty string are falsy.
Truthy(v) == v # NoneVal /\ v # ""

\* ------------------------------------------------------------ text helpers

UpperCase == <<"A","B","C","D","E","F","G","H","I","J","K","L","M",
               "N","O","P","Q","R","S","T","U","V","W","X","Y","Z">>

LowerCase == <<"a","b","c","d","e","f","g","h","i","j","k","l","m",
               "n","o","p","q","r","s","t","u","v","w","x","y","z">>

\* str.lower() on one character.
LowerChar(c) ==
    IF \E i \in DOMAIN UpperCase : UpperCase[i] = c
    THEN LowerCase[CHOOSE i \in DOMAIN UpperCase : UpperCase[i] = c]
    ELSE c

\* str.lower()
Lower(s) == [i \in DOMAIN s |-> LowerChar(s[i])]

\* Python's `sub in s` on strings: sub occurs as a contiguous substring.
Contains(sub, s) ==
    \E i \in 0 .. Len(s) :
        /\ i + Len(sub) <= Len(s)
        /\ SubSeq(s, i + 1, i + Len(sub)) = sub

\* any(keyword in user_query for keyword in keywords)
AnyKeywordIn(keywords, s) ==
    \E k \in DOMAIN keywords : Contains(keywords[k], s)

\* ------------------------------------------------------- program constants

\* The keyword lists of on_user_turn_completed.
CREDIT_CARD_KEYWORDS ==
    << <<"c", "r", "e", "d", "i", "t", " ", "c", "a", "r", "d">>,
       <<"c", "r", "e", "d", "i", "t">>,
       <<"c", "a", "r", "d">> >>

FULL_PAYMENT_KEYWORDS ==
    << <<"f", "u", "l", "l", " ", "p", "a", "y", "m", "e", "n", "t">>,
       <<"f", "u", "l", "l">>,
       <<"u", "p", "f", "r", "o", "n", "t">>,
       <<"o", "n", "e", " ", "t", "i", "m", "e">> >>

NBFC_EMI_KEYWORDS ==
    << <<"e", "m", "i">>,
       <<"l", "o", "a", "n">>,
       <<"n", "b", "f", "c">>,
       <<"i", "n", "s", "t", "a", "l", "l", "m", "e", "n", "t">>,
       <<"m", "o", "n", "t", "h", "l", "y">> >>

QUESTION_MARK == <<"?">>

\* The stage guidance catalog: stage identifier -> directive text (the text
\* is named by its stage).
STAGE_FOCUS_PROMPTS ==
    [s \in {"greeting", "payment_options", "nbfc_selection", "kyc", "rca"}
        |-> s]

\* STAGE_FOCUS_PROMPTS.get(stage)
StageGuidance(stage) ==
    IF stage \in DOMAIN STAGE_FOCUS_PROMPTS
    THEN STAGE_FOCUS_PROMPTS[stage]
    ELSE NoneVal

\* The stages update_agent_for_stage treats as the end of the conversation.
TerminalStages == {"completed", "flow_complete"}

HANDOFF_MESSAGE ==
    "Our human agent will contact you shortly for the payment process."

CONTINUE_MESSAGE == "Great! Let me unlock the 0% EMI loan steps for you."

PaymentChoices == {"credit_card", "full_payment", "nbfc_emi"}

\* ----------------------------------------------------------------- state

VARIABLES
    current_stage,          \* self.current_stage
    user_payment_choice,    \* self.user_payment_choice (NoneVal: unset)
    agent_session,          \* self.agent_session
    query_engine,           \* self.query_engine is set (TRUE) or None
    ev,                     \* the event handled last
    pre,                    \* stage and choice before that event
    effects,                \* what its handler did, in order
    raised,                 \* whether an exception left that handler
    tasks                   \* handlers begun and not yet forgotten, each
                            \* with the await it is suspended at

vars == <<current_stage, user_payment_choice, agent_session, query_engine,
          ev, pre, effects, raised, tasks>>

\* self.agent_session: None, a session object that has no (truthy) room
\* attribute, or one that has a room.  Which of the two a session object is
\* is decided outside this repository.
NoSession == "None"
SessionKinds == {"session_without_room", "session_with_room"}

\* hasattr(self.agent_session, 'room') and self.agent_session.room
HasRoom(session) == session = "session_with_room"

\* ------------------------------------------------------------- effect log

Effect(kind, tag, arg, msg, ok) ==
    [kind |-> kind, tag |-> tag, arg |-> arg, msg |-> msg, ok |-> ok]

\* The running state of one handler: the two attributes it writes, its
\* effect log, and whether an exception is propagating.
Machine(stage, choice) ==
    [stage |-> stage, choice |-> choice, eff |-> <<>>, exc |-> FALSE]

NumReplies(eff) == Cardinality({i \in DOMAIN eff : eff[i].kind = "reply"})

\* The outcomes of the collaborator calls of one event: env.reply[n] tells
\* whether the n-th generate_reply call returns (no handler makes more than
\* two), env.lookup whether query_engine.query does, env.publish whether
\* publish_data does.
Envs ==
    [reply : [{1, 2} -> BOOLEAN], lookup : BOOLEAN, publish : BOOLEAN]

\* on_data_received makes no lookup.
DataEnvs == {env \in Envs : env.lookup}

\* await <session>.generate_reply(instructions=...): the call is logged and
\* raises when the environment says so.
GenerateReply(m, env, tag, arg) ==
    LET n == NumReplies(m.eff) + 1
        ok == IF n \in DOMAIN env.reply THEN env.reply[n] ELSE TRUE
    IN  [m EXCEPT !.eff = Append(@, Effect("reply", tag, arg, NoneVal, ok)),
                  !.exc = ~ok]

\* self.current_stage = stage
SetStage(m, stage) ==
    [m EXCEPT !.stage = stage,
              !.eff = Append(@, Effect("set_stage", "stage", stage,
                                       NoneVal, TRUE))]

\* ------------------------------------------------------------- operations

\* _map_payment_choice that stores the result of a table lookup: an
\* unknown token unsets the choice.
MapPaymentChoice_ResetUnknown(m, choice) ==
    IF ~Truthy(choice) THEN m
    ELSE IF choice \in {"credit-card", "credit-card-emi"}
         THEN [m EXCEPT !.choice = "credit_card"]
    ELSE IF choice = "full-payment"
         THEN [m EXCEPT !.choice = "full_payment"]
    ELSE IF choice \in {"nbfc-emi", "0%-interest-loan-with-nbfc-(emi)"}
         THEN [m EXCEPT !.choice = "nbfc_emi"]
    ELSE [m EXCEPT !.choice = NoneVal]

\* _map_payment_choice: a frontend token sets the canonical choice; a falsy
\* or unknown token leaves it as it is.
MapPaymentChoice(m, choice) ==
    IF ~Truthy(choice) THEN m
    ELSE IF choice \in {"credit-card", "credit-card-emi"}
         THEN [m EXCEPT !.choice = "credit_card"]
    ELSE IF choice = "full-payment"
         THEN [m EXCEPT !.choice = "full_payment"]
    ELSE IF choice \in {"nbfc-emi", "0%-interest-loan-with-nbfc-(emi)"}
         THEN [m EXCEPT !.choice = "nbfc_emi"]
    ELSE m

\* update_agent_for_stage without the catalog test: guidance is dispatched
\* for any stage that is not terminal.
UpdateAgentForStage_NoCatalogTest(m, session, env) ==
    IF m.stage \in TerminalStages THEN m
    ELSE IF session = NoSession THEN m
    ELSE GenerateReply(m, env, "guidance", m.stage)

\* update_agent_for_stage: one guidance reply for a non-terminal stage of
\* the catalog, when a session is attached.
UpdateAgentForStage(m, session, env) ==
    IF m.stage \in TerminalStages THEN m
    ELSE IF StageGuidance(m.stage) = NoneVal \/ session = NoSession THEN m
    ELSE GenerateReply(m, env, "guidance", m.stage)

\* A notification that is published once more when publish_data failed.
Publish_Retry(m, session, env, tag, arg, agent_message) ==
    IF HasRoom(session)
    THEN LET sent == Effect("publish", tag, arg,
                            IF Truthy(agent_message) THEN agent_message
                                                     ELSE NoneVal,
                            env.publish)
         IN  [m EXCEPT !.eff = IF env.publish THEN Append(@, sent)
                               ELSE Append(Append(@, sent), sent)]
    ELSE m

\* The body of a notification: publish_data is called when the session has
\* a room; its failure is caught inside the notifier.
Publish(m, session, env, tag, arg, agent_message) ==
    IF HasRoom(session)
    THEN [m EXCEPT !.eff =
            Append(@, Effect("publish", tag, arg,
                             IF Truthy(agent_message) THEN agent_message
                                                      ELSE NoneVal,
                             env.publish))]
    ELSE m

\* _notify_flow_complete that sends the stage-advanced payload instead.
NotifyFlowComplete_AsStageUpdate(m, session, env, agent_message) ==
    Publish(m, session, env, "advance_stage", m.stage, agent_message)

\* _notify_flow_complete: {"status": "ended", "message": "conversation_completed"}
NotifyFlowComplete(m, session, env, agent_message) ==
    Publish(m, session, env, "ended", "conversation_completed", agent_message)

\* _notify_stage_update: {"stage": next_stage, "advance_stage": True}
NotifyStageUpdate(m, session, env, next_stage, agent_message) ==
    Publish(m, session, env, "advance_stage", next_stage, agent_message)

\* The transition with the guidance dispatched before the notification.
FinishPaymentTransition_GuidanceFirst(m, session, env, next_stage, agent_message) ==
    IF next_stage = "flow_complete"
    THEN NotifyFlowComplete(SetStage(m, "completed"), session, env,
                            agent_message)
    ELSE LET guided == UpdateAgentForStage(SetStage(m, next_stage),
                                           session, env)
         IN  IF guided.exc THEN guided
             ELSE NotifyStageUpdate(guided, session, env, next_stage,
                                    agent_message)

\* _process_payment_transition, after the agent_message reply returned.
FinishPaymentTransition(m, session, env, next_stage, agent_message) ==
    IF next_stage = "flow_complete"
    THEN NotifyFlowComplete(SetStage(m, "completed"), session, env,
                            agent_message)
    ELSE UpdateAgentForStage(
             NotifyStageUpdate(SetStage(m, next_stage), session, env,
                               next_stage, agent_message),
             session, env)

\* The transition with the agent_message reply dispatched last.
ProcessPaymentTransition_NotifyFirst(m, session, env, next_stage, agent_message, has_reply_session) ==
    LET done == FinishPaymentTransition(m, session, env, next_stage,
                                        agent_message)
    IN  IF done.exc THEN done
        ELSE IF Truthy(agent_message) /\ has_reply_session
        THEN GenerateReply(done, env, "say", agent_message)
        ELSE done

\* The transition with the stage written before the agent_message reply.
ProcessPaymentTransition_StageFirst(m, session, env, next_stage, agent_message, has_reply_session) ==
    LET target == IF next_stage = "flow_complete" THEN "completed"
                  ELSE next_stage
        said == IF Truthy(agent_message) /\ has_reply_session
                THEN GenerateReply([m EXCEPT !.stage = target], env, "say",
                                   agent_message)
                ELSE m
    IN  IF said.exc THEN said
        ELSE FinishPaymentTransition(said, session, env, next_stage,
                                     agent_message)

\* _process_payment_transition; has_reply_session: reply_session is not None.
ProcessPaymentTransition(m, session, env, next_stage, agent_message, has_reply_session) ==
    LET said == IF Truthy(agent_message) /\ has_reply_session
                THEN GenerateReply(m, env, "say", agent_message)
                ELSE m
    IN  IF said.exc THEN said
        ELSE FinishPaymentTransition(said, session, env, next_stage,
                                     agent_message)

\* The routing shared by _handle_payment_selection and
\* _handle_payment_selection_direct: the stored choice picks the transition.
RoutePaymentSelection(m, session, env, has_reply_session) ==
    IF m.choice \in {"credit_card", "full_payment"}
    THEN ProcessPaymentTransition(m, session, env, "flow_complete",
                                  HANDOFF_MESSAGE, has_reply_session)
    ELSE IF m.choice = "nbfc_emi"
    THEN ProcessPaymentTransition(m, session, env, "nbfc_selection",
                                  CONTINUE_MESSAGE, has_reply_session)
    ELSE m

\* _handle_payment_selection: replies go to turn_ctx.session, the session
\* of the turn, which exists whenever a turn is delivered.
HandlePaymentSelection(m, session, env) ==
    RoutePaymentSelection(m, session, env, TRUE)

\* _handle_payment_selection_direct: replies go to self.agent_session.
HandlePaymentSelectionDirect(m, session, env) ==
    RoutePaymentSelection(m, session, env, session # NoSession)

\* The keyword chain with the full_payment list tried first.
KeywordChoice_FullFirst(user_query) ==
    IF AnyKeywordIn(FULL_PAYMENT_KEYWORDS, user_query) THEN "full_payment"
    ELSE IF AnyKeywordIn(CREDIT_CARD_KEYWORDS, user_query) THEN "credit_card"
    ELSE IF AnyKeywordIn(NBFC_EMI_KEYWORDS, user_query) THEN "nbfc_emi"
    ELSE NoneVal

\* The if/elif chain over the keyword lists in on_user_turn_completed:
\* the choice the lower-cased transcript names, or NoneVal.
KeywordChoice(user_query) ==
    IF AnyKeywordIn(CREDIT_CARD_KEYWORDS, user_query) THEN "credit_card"
    ELSE IF AnyKeywordIn(FULL_PAYMENT_KEYWORDS, user_query) THEN "full_payment"
    ELSE IF AnyKeywordIn(NBFC_EMI_KEYWORDS, user_query) THEN "nbfc_emi"
    ELSE NoneVal

\* The payment branch without its stage test.
TakesPaymentPath_AnyStage(stage, keyword_choice) ==
    keyword_choice # NoneVal

\* Whether on_user_turn_completed takes the payment branch: the stage is
\* payment_options and a keyword list matched (keyword_choice is set).
TakesPaymentPath(stage, keyword_choice) ==
    stage = "payment_options" /\ keyword_choice # NoneVal

\* Default reply generation: generate_reply() with no instructions.
DefaultReply(m, env) == GenerateReply(m, env, "default", NoneVal)

\* RagOrDefault without the `return` after the RAG reply: the default reply
\* follows every lookup.
RagOrDefault_NoReturn(m, env, has_engine, user_query) ==
    IF has_engine /\ Contains(QUESTION_MARK, user_query)
    THEN LET looked == [m EXCEPT !.eff =
                          Append(@, Effect("lookup", "query", NoneVal,
                                           NoneVal, env.lookup))]
         IN  IF ~env.lookup THEN DefaultReply(looked, env)
             ELSE DefaultReply(
                      [GenerateReply(looked, env, "rag", NoneVal)
                          EXCEPT !.exc = FALSE], env)
    ELSE DefaultReply(m, env)

\* The RAG block with the lookup made outside the try: its failure
\* propagates.
RagOrDefault_LookupEscapes(m, env, has_engine, user_query) ==
    IF has_engine /\ Contains(QUESTION_MARK, user_query)
    THEN LET looked == [m EXCEPT !.eff =
                          Append(@, Effect("lookup", "query", NoneVal,
                                           NoneVal, env.lookup))]
         IN  IF ~env.lookup THEN [looked EXCEPT !.exc = TRUE]
             ELSE LET replied == GenerateReply(looked, env, "rag", NoneVal)
                  IN  IF replied.exc
                      THEN DefaultReply([replied EXCEPT !.exc = FALSE], env)
                      ELSE replied
    ELSE DefaultReply(m, env)

\* The RAG block of on_user_turn_completed and what follows it: a lookup
\* and a reply built from it; any exception inside the try (the lookup's or
\* the reply's) is caught and the default reply follows.
RagOrDefault(m, env, has_engine, user_query) ==
    IF has_engine /\ Contains(QUESTION_MARK, user_query)
    THEN LET looked == [m EXCEPT !.eff =
                          Append(@, Effect("lookup", "query", NoneVal,
                                           NoneVal, env.lookup))]
         IN  IF ~env.lookup THEN DefaultReply(looked, env)
             ELSE LET replied == GenerateReply(looked, env, "rag", NoneVal)
                  IN  IF replied.exc
                      THEN DefaultReply([replied EXCEPT !.exc = FALSE], env)
                      ELSE replied
    ELSE DefaultReply(m, env)

\* on_user_turn_completed
UserTurnCompleted(m, session, env, has_engine, transcript) ==
    LET user_query == Lower(transcript)
        keyword_choice == KeywordChoice(user_query)
    IN  IF TakesPaymentPath(m.stage, keyword_choice)
        THEN HandlePaymentSelection([m EXCEPT !.choice = keyword_choice],
                                    session, env)
        ELSE RagOrDefault(m, env, has_engine, user_query)

\* ------------------------------------------------------- control messages

PayloadKeys ==
    {"action", "type", "choice", "next_stage", "agent_message", "stage",
     "payment_choice"}

\* payload.get(key): the value, or None when the key is missing.
Get(payload, key) ==
    IF payload[key] = Absent THEN NoneVal ELSE payload[key]

\* `key in payload`
HasKey(payload, key) == payload[key] # Absent

\* The branches with the stage test made first.
Shape_StageFirst(payload) ==
    IF HasKey(payload, "stage") THEN "stage"
    ELSE IF Get(payload, "action") = "force_reply" THEN "force_reply"
    ELSE IF Get(payload, "type") = "payment_option.selected" THEN "selected"
    ELSE IF HasKey(payload, "payment_choice") THEN "payment_choice"
    ELSE "none"

\* The branch of on_data_received a decoded object takes: the tests are
\* made in this order and the first that holds decides.
Shape(payload) ==
    IF Get(payload, "action") = "force_reply" THEN "force_reply"
    ELSE IF Get(payload, "type") = "payment_option.selected" THEN "selected"
    ELSE IF HasKey(payload, "stage") THEN "stage"
    ELSE IF HasKey(payload, "payment_choice") THEN "payment_choice"
    ELSE "none"

\* The `payment_option.selected` branch that routes by the mapped choice
\* and not by next_stage.
PaymentOptionSelected_InferredRoute(m, session, env, payload) ==
    LET mapped == MapPaymentChoice(m, Get(payload, "choice"))
    IN  IF Truthy(Get(payload, "next_stage"))
        THEN RoutePaymentSelection(mapped, session, env, session # NoSession)
        ELSE mapped

\* The `payment_option.selected` branch.
PaymentOptionSelected(m, session, env, payload) ==
    LET mapped == MapPaymentChoice(m, Get(payload, "choice"))
    IN  IF Truthy(Get(payload, "next_stage"))
        THEN ProcessPaymentTransition(mapped, session, env,
                                      Get(payload, "next_stage"),
                                      Get(payload, "agent_message"),
                                      session # NoSession)
        ELSE mapped

\* The `payment_choice` branch.
PaymentChoiceReceived(m, session, env, payload) ==
    LET mapped == MapPaymentChoice(m, payload["payment_choice"])
    IN  IF session # NoSession
        THEN HandlePaymentSelectionDirect(mapped, session, env)
        ELSE mapped

\* The `force_reply` branch that re-engages from the first stage.
ForceReply_Restart(m, session, env) ==
    IF session # NoSession
    THEN GenerateReply([m EXCEPT !.stage = "greeting"], env, "reengage",
                       "greeting")
    ELSE m

\* The `force_reply` branch: a re-engagement reply naming the current stage.
ForceReply(m, session, env) ==
    IF session # NoSession
    THEN GenerateReply(m, env, "reengage", m.stage)
    ELSE m

\* The `stage` branch that does nothing when the stage is the current one.
StageReceived_SkipIfSame(m, session, env, payload) ==
    IF payload["stage"] = m.stage THEN m
    ELSE UpdateAgentForStage(SetStage(m, payload["stage"]), session, env)

\* The `stage` branch: the stage is stored as received, then guidance.
StageReceived(m, session, env, payload) ==
    UpdateAgentForStage(SetStage(m, payload["stage"]), session, env)

\* The try block of on_data_received.  data.form tells what the bytes are:
\* bytes that are not UTF-8 ("undecodable") or not JSON ("not_json") make
\* json.loads(data.decode()) raise, a JSON value that is no object
\* ("not_object") makes payload.get raise.
DataReceivedBody(m, session, env, data) ==
    IF data.form # "object" THEN [m EXCEPT !.exc = TRUE]
    ELSE LET shape == Shape(data.payload)
         IN  CASE shape = "force_reply" -> ForceReply(m, session, env)
               [] shape = "selected" ->
                      PaymentOptionSelected(m, session, env, data.payload)
               [] shape = "stage" ->
                      StageReceived(m, session, env, data.payload)
               [] shape = "payment_choice" ->
                      PaymentChoiceReceived(m, session, env, data.payload)
               [] OTHER -> m

\* on_data_received without its except clause.
CatchException_None(m) == m

\* `except Exception as e: print(...)`: nothing leaves on_data_received.
CatchException(m) == [m EXCEPT !.exc = FALSE]

\* on_data_received
DataReceived(m, session, env, data) ==
    CatchException(DataReceivedBody(m, session, env, data))

\* ------------------------------------------------------------ the inputs

EmptyPayload == [k \in PayloadKeys |-> Absent]

\* Stage identifiers a frontend may send: the catalog, the terminal names
\* and a name of the older stage set, which the catalog does not know.
StageValues ==
    {"greeting", "payment_options", "nbfc_selection", "kyc", "rca",
     "completed", "flow_complete", "introduction"}

\* Choice tokens: the five the code knows, and three it does not.
ChoiceTokens ==
    {"credit-card", "credit-card-emi", "full-payment", "nbfc-emi",
     "0%-interest-loan-with-nbfc-(emi)", "upi", "Full-Payment", ""}

NextStageValues ==
    {"", "flow_complete", "nbfc_selection", "kyc", "completed",
     "introduction"}

AgentMessages == {"", "Thanks"}

\* Payloads of a single shape.
ForceReplyPayloads == { [EmptyPayload EXCEPT !["action"] = "force_reply"] }

SelectedPayloads ==
    { [EmptyPayload EXCEPT !["type"] = "payment_option.selected",
                           !["choice"] = c,
                           !["next_stage"] = n,
                           !["agent_message"] = a] :
        c \in ChoiceTokens \cup {Absent},
        n \in NextStageValues \cup {Absent},
        a \in AgentMessages \cup {Absent} }

StagePayloads ==
    { [EmptyPayload EXCEPT !["stage"] = s] : s \in StageValues }

PaymentChoicePayloads ==
    { [EmptyPayload EXCEPT !["payment_choice"] = c] : c \in ChoiceTokens }

OtherPayloads ==
    { EmptyPayload,
      [EmptyPayload EXCEPT !["action"] = "ping"],
      [EmptyPayload EXCEPT !["type"] = "chat"] }

\* Payloads that carry the keys of several shapes at once.
MixedPayloads ==
    { [EmptyPayload EXCEPT !["action"] = x.action,
                           !["type"] = x.sel[1],
                           !["choice"] = x.sel[2],
                           !["next_stage"] = x.sel[3],
                           !["agent_message"] = x.sel[4],
                           !["stage"] = x.stage,
                           !["payment_choice"] = x.payment_choice] :
        x \in [action : {Absent, "force_reply"},
               sel : { <<Absent, Absent, Absent, Absent>>,
                       <<"payment_option.selected", "nbfc-emi",
                         "flow_complete", "Thanks">>,
                       <<"payment_option.selected", "full-payment",
                         "kyc", Absent>>,
                       <<"payment_option.selected", "credit-card",
                         Absent, Absent>> },
               stage : {Absent, "kyc", "rca", "completed"},
               payment_choice : {Absent, "full-payment", "nbfc-emi", "upi"}] }

Payloads ==
    ForceReplyPayloads \cup SelectedPayloads \cup StagePayloads
        \cup PaymentChoicePayloads \cup OtherPayloads \cup MixedPayloads

\* What on_data_received may be handed.
DataMessages ==
    { [form |-> f, payload |-> EmptyPayload] :
        f \in {"undecodable", "not_json", "not_object"} }
    \cup { [form |-> "object", payload |-> p] : p \in Payloads }

\* ----------------------------------------------------- the state machine

Event(kind, transcript, data) ==
    [kind |-> kind, transcript |-> transcript, data |-> data]

NoData == [form |-> "none", payload |-> EmptyPayload]

\* No event is being looked at: the agent waits for the next one.
Idle == Event("idle", <<>>, NoData)

\* NxtWaveOnboardingAgent.__init__; the query engine is the constructor's
\* argument, None when the RAG pipeline did not come up.
Init ==
    /\ current_stage = "greeting"
    /\ user_payment_choice = NoneVal
    /\ agent_session = NoSession
    /\ query_engine \in BOOLEAN
    /\ ev = Idle
    /\ pre = [stage |-> "greeting", choice |-> NoneVal]
    /\ effects = <<>>
    /\ raised = FALSE
    /\ tasks = <<>>

\* entrypoint: agent_instance.agent_session = session
AttachSession ==
    /\ ev = Idle
    /\ tasks = <<>>
    /\ agent_session = NoSession
    /\ agent_session' \in SessionKinds
    /\ UNCHANGED <<current_stage, user_payment_choice, query_engine, ev, pre,
                   effects, raised, tasks>>

\* What a handler leaves behind.
Handled(event, m) ==
    /\ current_stage' = m.stage
    /\ user_payment_choice' = m.choice
    /\ ev' = event
    /\ pre' = [stage |-> current_stage, choice |-> user_payment_choice]
    /\ effects' = m.eff
    /\ raised' = m.exc
    /\ UNCHANGED <<agent_session, query_engine, tasks>>

\* A turn-completed event is delivered and on_user_turn_completed runs.
OnUserTurnCompleted ==
    /\ ev = Idle
    /\ \E transcript \in Transcripts, env \in Envs :
        Handled(Event("turn", transcript, NoData),
                UserTurnCompleted(Machine(current_stage, user_payment_choice),
                                  agent_session, env, query_engine,
                                  transcript))

\* A data message is delivered and on_data_received runs.
OnDataReceived ==
    /\ ev = Idle
    /\ \E data \in DataMessages, env \in DataEnvs :
        Handled(Event("data", <<>>, data),
                DataReceived(Machine(current_stage, user_payment_choice),
                             agent_session, env, data))

\* The handler is over; the session waits for the next event.  The record
\* of the event just handled is dropped, the agent's attributes stay.
AwaitEvent ==
    /\ ev # Idle
    /\ ev' = Idle
    /\ pre' = [stage |-> current_stage, choice |-> user_payment_choice]
    /\ effects' = <<>>
    /\ raised' = FALSE
    /\ UNCHANGED <<current_stage, user_payment_choice, agent_session,
                   query_engine, tasks>>

Next ==
    \/ AttachSession
    \/ OnUserTurnCompleted
    \/ OnDataReceived
    \/ AwaitEvent

Spec == Init /\ [][Next]_vars

\* ------------------------------------------- the handlers as coroutines
\*
\* Both handlers are `async def`: one runs from an await to the next, and
\* while it is suspended there the event loop runs whatever else is ready.
\* The class holds no lock, queue or flag that keeps a second handler from
\* beginning meanwhile.  Below, a handler is a task that runs step by step;
\* query_engine.query is an ordinary call and suspends nothing.

\* How many handlers may be under way at once.
MaxTasks == 2

\* A handler between two steps: the attributes as it leaves them and the
\* await it is suspended at ("done": it returned or raised), with the
\* locals next_stage and agent_message of _process_payment_transition.
Suspended(st, pc, next_stage, agent_message) ==
    [stage |-> st.stage, choice |-> st.choice, pc |-> pc,
     next_stage |-> next_stage, agent_message |-> agent_message]

Returned(st) == Suspended(st, "done", NoneVal, NoneVal)

\* update_agent_for_stage up to its await: the stage is read when the
\* coroutine gets here.
EnterGuidance(st, session) ==
    IF st.stage \in TerminalStages THEN Returned(st)
    ELSE IF StageGuidance(st.stage) = NoneVal \/ session = NoSession
         THEN Returned(st)
    ELSE Suspended(st, "await_guidance", NoneVal, NoneVal)

\* _process_payment_transition from the stage write to the next await.
EnterStageWrite(st, session, next_stage, agent_message) ==
    IF next_stage = "flow_complete"
    THEN LET ended == [st EXCEPT !.stage = "completed"]
         IN  IF HasRoom(session)
             THEN Suspended(ended, "await_publish_ended", next_stage,
                            agent_message)
             ELSE Returned(ended)
    ELSE LET moved == [st EXCEPT !.stage = next_stage]
         IN  IF HasRoom(session)
             THEN Suspended(moved, "await_publish_stage", next_stage,
                            agent_message)
             ELSE EnterGuidance(moved, session)

\* _process_payment_transition from its first line to the first await.
EnterTransition(st, session, next_stage, agent_message, has_reply_session) ==
    IF Truthy(agent_message) /\ has_reply_session
    THEN Suspended(st, "await_say", next_stage, agent_message)
    ELSE EnterStageWrite(st, session, next_stage, agent_message)

\* _handle_payment_selection / _handle_payment_selection_direct.
EnterRoute(st, session, has_reply_session) ==
    IF st.choice \in {"credit_card", "full_payment"}
    THEN EnterTransition(st, session, "flow_complete", HANDOFF_MESSAGE,
                         has_reply_session)
    ELSE IF st.choice = "nbfc_emi"
    THEN EnterTransition(st, session, "nbfc_selection", CONTINUE_MESSAGE,
                         has_reply_session)
    ELSE Returned(st)

\* on_user_turn_completed up to its first await; lookup_ok: whether
\* query_engine.query returns.
BeginTurn(st, session, has_engine, transcript, lookup_ok) ==
    LET user_query == Lower(transcript)
        keyword_choice == KeywordChoice(user_query)
    IN  IF TakesPaymentPath(st.stage, keyword_choice)
        THEN EnterRoute([st EXCEPT !.choice = keyword_choice], session, TRUE)
        ELSE IF has_engine /\ Contains(QUESTION_MARK, user_query)
                 /\ lookup_ok
        THEN Suspended(st, "await_rag", NoneVal, NoneVal)
        ELSE Suspended(st, "await_default", NoneVal, NoneVal)

\* on_data_received up to its first await.
BeginData(st, session, data) ==
    IF data.form # "object" THEN Returned(st)
    ELSE LET payload == data.payload
             shape == Shape(payload)
         IN  CASE shape = "force_reply" ->
                      IF session # NoSession
                      THEN Suspended(st, "await_reengage", NoneVal, NoneVal)
                      ELSE Returned(st)
               [] shape = "selected" ->
                      LET mapped == MapPaymentChoice(st, Get(payload, "choice"))
                      IN  IF Truthy(Get(payload, "next_stage"))
                          THEN EnterTransition(mapped, session,
                                               Get(payload, "next_stage"),
                                               Get(payload, "agent_message"),
                                               session # NoSession)
                          ELSE Returned(mapped)
               [] shape = "stage" ->
                      EnterGuidance([st EXCEPT !.stage = payload["stage"]],
                                    session)
               [] shape = "payment_choice" ->
                      LET mapped == MapPaymentChoice(st,
                                                     payload["payment_choice"])
                      IN  IF session # NoSession
                          THEN EnterRoute(mapped, session, TRUE)
                          ELSE Returned(mapped)
               [] OTHER -> Returned(st)

\* A suspended handler goes on, from the await that returned (ok) or
\* raised, to its next await or its end.
ResumeFrom(task, st, session, ok) ==
    CASE task.pc = "await_say" ->
             IF ok THEN EnterStageWrite(st, session, task.next_stage,
                                        task.agent_message)
             ELSE Returned(st)
      [] task.pc = "await_publish_stage" -> EnterGuidance(st, session)
      [] task.pc = "await_rag" ->
             IF ok THEN Returned(st)
             ELSE Suspended(st, "await_default", NoneVal, NoneVal)
      [] OTHER -> Returned(st)

\* The events the coroutine model delivers: the transcripts of at most one
\* word, and one control message or a few of every shape.
AsyncTranscripts == TranscriptsOf(1)

AsyncPayloads ==
    ForceReplyPayloads
        \cup { p \in StagePayloads :
                 p["stage"] \in {"payment_options", "kyc", "completed"} }
        \cup { p \in PaymentChoicePayloads :
                 p["payment_choice"] \in {"nbfc-emi", "upi"} }
        \cup { p \in SelectedPayloads :
                 /\ p["choice"] = "full-payment"
                 /\ p["next_stage"] \in {"kyc", "flow_complete"}
                 /\ p["agent_message"] = "Thanks" }

AsyncMessages ==
    { d \in DataMessages :
        d.form = "undecodable" \/ d.payload \in AsyncPayloads }

Task(event, outcome) ==
    [event |-> event, pc |-> outcome.pc, next_stage |-> outcome.next_stage,
     agent_message |-> outcome.agent_message]

Attributes == [stage |-> current_stage, choice |-> user_payment_choice]

\* What a step of a handler leaves behind.
Stepped(outcome, tasks_after) ==
    /\ current_stage' = outcome.stage
    /\ user_payment_choice' = outcome.choice
    /\ tasks' = tasks_after
    /\ pre' = IF tasks = <<>> THEN Attributes ELSE pre
    /\ UNCHANGED <<agent_session, query_engine, ev, effects, raised>>

\* A turn-completed event is delivered: on_user_turn_completed begins and
\* runs to its first await.
BeginUserTurnCompleted ==
    /\ Len(tasks) < MaxTasks
    /\ \E transcript \in AsyncTranscripts, lookup_ok \in BOOLEAN :
        LET outcome == BeginTurn(Attributes, agent_session, query_engine,
                                 transcript, lookup_ok)
        IN  Stepped(outcome,
                    Append(tasks, Task(Event("turn", transcript, NoData),
                                       outcome)))

\* A data message is delivered: on_data_received begins and runs to its
\* first await.
BeginDataReceived ==
    /\ Len(tasks) < MaxTasks
    /\ \E data \in AsyncMessages :
        LET outcome == BeginData(Attributes, agent_session, data)
        IN  Stepped(outcome,
                    Append(tasks, Task(Event("data", <<>>, data), outcome)))

\* The call a handler awaits returns or raises and the handler goes on.
Resume ==
    \E i \in DOMAIN tasks, ok \in BOOLEAN :
        /\ tasks[i].pc # "done"
        /\ LET outcome == ResumeFrom(tasks[i], Attributes, agent_session, ok)
           IN  Stepped(outcome,
                       [tasks EXCEPT ![i] = Task(tasks[i].event, outcome)])

\* Every handler begun is over; they are forgotten.
Settle ==
    /\ tasks # <<>>
    /\ \A i \in DOMAIN tasks : tasks[i].pc = "done"
    /\ tasks' = <<>>
    /\ pre' = Attributes
    /\ UNCHANGED <<current_stage, user_payment_choice, agent_session,
                   query_engine, ev, effects, raised>>

NextAsync ==
    \/ AttachSession
    \/ BeginUserTurnCompleted
    \/ BeginDataReceived
    \/ Resume
    \/ Settle

SpecAsync == Init /\ [][NextAsync]_vars

\* ------------------------------------------------- reading the effect log

IsReply(e) == e.kind = "reply"
IsPublish(e) == e.kind = "publish"
IsStageWrite(e) == e.kind = "set_stage"

\* The reply dispatches, the notifications and the stage writes of the
\* event handled last, each in the order they were made.
Replies == SelectSeq(effects, IsReply)
Publishes == SelectSeq(effects, IsPublish)
StageWrites == SelectSeq(effects, IsStageWrite)

\* An effect without the outcome of its call.
Shown(e) == <<e.kind, e.tag, e.arg, e.msg>>
ShownAll(eff) == [i \in DOMAIN eff |-> Shown(eff[i])]

GuidanceReplies == {i \in DOMAIN effects :
                        effects[i].kind = "reply" /\ effects[i].tag = "guidance"}

TurnHandled == ev.kind = "turn"
ObjectHandled == ev.kind = "data" /\ ev.data.form = "object"

\* The choice the transcript of the turn handled last names.
SpokenChoice == KeywordChoice(Lower(ev.transcript))

\* The model is well formed: the attributes have the values the code can
\* give them and no handler dispatches more than two replies.
TypeOK ==
    /\ agent_session \in SessionKinds \cup {NoSession}
    /\ query_engine \in BOOLEAN
    /\ user_payment_choice \in PaymentChoices \cup {NoneVal}
    /\ Len(Replies) <= 2
    /\ Len(Publishes) <= 1
    /\ (ev = Idle => effects = <<>> /\ ~raised)

\* ---------------------------------------------------------------- claims

\* C1 as stated: every turn-completed event makes exactly one reply
\* dispatch (generate_reply call), whatever the stage and the transcript.
C1_ExactlyOneReplyPerTurn ==
    TurnHandled => Len(Replies) = 1

\* C1, amended: a turn-completed event makes one reply dispatch or two.
\* The payment path excludes the lookup and default paths.  Two dispatches
\* are made in exactly two cases: on the payment path with choice nbfc_emi,
\* when the continuation reply returned and a session is attached (the
\* stage guidance follows it); and off the payment path, when the lookup
\* succeeded and the reply built from it raised (the default reply follows
\* it).  A reply built from a lookup that returned is never followed by
\* the default reply.
C1_ReplyDispatchesPerTurn ==
    TurnHandled =>
        LET onPaymentPath ==
                pre.stage = "payment_options" /\ SpokenChoice # NoneVal
        IN  /\ Len(Replies) \in {1, 2}
            /\ onPaymentPath =>
                   \A i \in DOMAIN Replies :
                       Replies[i].tag \in {"say", "guidance"}
            /\ ~onPaymentPath =>
                   \A i \in DOMAIN Replies :
                       Replies[i].tag \in {"rag", "default"}
            /\ Len(Replies) = 2 <=>
                   \/ /\ onPaymentPath
                      /\ SpokenChoice = "nbfc_emi"
                      /\ Replies[1].ok
                      /\ agent_session # NoSession
                   \/ /\ ~onPaymentPath
                      /\ Replies[1].tag = "rag"
                      /\ ~Replies[1].ok
            /\ Len(Replies) = 2 =>
                   Replies[2].tag = IF onPaymentPath THEN "guidance"
                                                     ELSE "default"

\* C1's case: a turn at payment_options naming the EMI option, answered by
\* the continuation reply and then by the stage guidance.
C1_Witness ==
    /\ TurnHandled
    /\ pre.stage = "payment_options"
    /\ Len(Replies) = 2
    /\ Replies[1].tag = "say"
    /\ Replies[2].tag = "guidance"

\* A turn at payment_options whose transcript names full payment or the
\* credit card.
HandoffTurn ==
    /\ TurnHandled
    /\ pre.stage = "payment_options"
    /\ SpokenChoice \in {"full_payment", "credit_card"}

\* C2 as stated: after a turn at payment_options that names full payment or
\* the credit card, the choice is stored, the stage is completed, exactly
\* one reply (the hand-off message) was dispatched and exactly one
\* notification, with status "ended", was published; no stage-advanced
\* notification and no stage guidance.
C2_HandoffAlwaysCompletes ==
    HandoffTurn =>
        /\ user_payment_choice = SpokenChoice
        /\ current_stage = "completed"
        /\ ShownAll(Replies) = << <<"reply", "say", HANDOFF_MESSAGE, NoneVal>> >>
        /\ Len(Publishes) = 1
        /\ Publishes[1].tag = "ended"
        /\ GuidanceReplies = {}

\* C2, amended: after such a turn the choice is stored and exactly one
\* reply, the hand-off message, was dispatched; there is no stage-advanced
\* notification and no stage guidance.  When that dispatch returned, the
\* stage is completed and exactly one notification, with status "ended" and
\* the hand-off message, was published if the attached session has a room,
\* none otherwise.  When that dispatch raised, the stage is still
\* payment_options, nothing was published and the exception left the
\* handler.
C2_HandoffTurn ==
    HandoffTurn =>
        /\ user_payment_choice = SpokenChoice
        /\ ShownAll(Replies) = << <<"reply", "say", HANDOFF_MESSAGE, NoneVal>> >>
        /\ GuidanceReplies = {}
        /\ IF Replies[1].ok
           THEN /\ current_stage = "completed"
                /\ ~raised
                /\ ShownAll(Publishes) =
                       IF HasRoom(agent_session)
                       THEN << <<"publish", "ended", "conversation_completed",
                                 HANDOFF_MESSAGE>> >>
                       ELSE <<>>
           ELSE /\ current_stage = pre.stage
                /\ raised
                /\ Publishes = <<>>

\* C2's case: the hand-off reply went out, the stage is completed and the
\* "ended" notification was published.
C2_Witness ==
    /\ HandoffTurn
    /\ current_stage = "completed"
    /\ Len(Replies) = 1
    /\ Len(Publishes) = 1
    /\ Publishes[1].tag = "ended"

\* A turn at payment_options whose transcript names the EMI option.
EmiTurn ==
    /\ TurnHandled
    /\ pre.stage = "payment_options"
    /\ SpokenChoice = "nbfc_emi"

\* The first place of the effect log where test holds, 0 when there is none.
FirstIndex(test(_)) ==
    IF \E i \in DOMAIN effects : test(effects[i])
    THEN CHOOSE i \in DOMAIN effects :
             test(effects[i]) /\ \A j \in 1 .. i - 1 : ~test(effects[j])
    ELSE 0

IsGuidance(e) == e.kind = "reply" /\ e.tag = "guidance"

\* C3 as stated: after a turn at payment_options that names the EMI option
\* the stage is nbfc_selection, exactly one stage-advanced notification
\* (stage nbfc_selection, advance_stage true) was published and exactly one
\* stage guidance reply for nbfc_selection followed it; the stage write
\* came before the notification and the notification before the guidance.
C3_EmiAlwaysAdvances ==
    EmiTurn =>
        /\ current_stage = "nbfc_selection"
        /\ Len(Publishes) = 1
        /\ Publishes[1].tag = "advance_stage"
        /\ Publishes[1].arg = "nbfc_selection"
        /\ Cardinality(GuidanceReplies) = 1
        /\ \A i \in GuidanceReplies : effects[i].arg = "nbfc_selection"
        /\ 0 < FirstIndex(IsStageWrite)
        /\ FirstIndex(IsStageWrite) < FirstIndex(IsPublish)
        /\ FirstIndex(IsPublish) < FirstIndex(IsGuidance)

\* What follows the continuation reply of an EMI turn when it returned:
\* the stage write, the notification if the session has a room, the
\* guidance if a session is attached.
EmiTail ==
    << <<"set_stage", "stage", "nbfc_selection", NoneVal>> >>
    \o (IF HasRoom(agent_session)
        THEN << <<"publish", "advance_stage", "nbfc_selection",
                  CONTINUE_MESSAGE>> >>
        ELSE <<>>)
    \o (IF agent_session # NoSession
        THEN << <<"reply", "guidance", "nbfc_selection", NoneVal>> >>
        ELSE <<>>)

\* C3, amended: such a turn stores nbfc_emi and first dispatches the
\* continuation reply.  When that dispatch returned, the stage becomes
\* nbfc_selection and then, in this order: the stage is written; exactly
\* one stage-advanced notification (stage nbfc_selection, advance_stage
\* true) is published if the attached session has a room, none otherwise;
\* exactly one stage guidance reply for nbfc_selection is dispatched if a
\* session is attached, none otherwise.  When the continuation dispatch
\* raised, the stage is still payment_options and nothing else happened.
C3_EmiTurn ==
    EmiTurn =>
        /\ user_payment_choice = "nbfc_emi"
        /\ Len(effects) >= 1
        /\ Shown(effects[1]) = <<"reply", "say", CONTINUE_MESSAGE, NoneVal>>
        /\ IF effects[1].ok
           THEN /\ current_stage = "nbfc_selection"
                /\ ShownAll(Tail(effects)) = EmiTail
           ELSE /\ current_stage = pre.stage
                /\ raised
                /\ Len(effects) = 1

\* C3's case: stage write, then the notification, then the guidance.
C3_Witness ==
    /\ EmiTurn
    /\ current_stage = "nbfc_selection"
    /\ Len(effects) = 4
    /\ effects[2].kind = "set_stage"
    /\ effects[3].kind = "publish"
    /\ effects[4].tag = "guidance"

\* The payload of the control message handled last.
Payload == ev.data.payload

\* A control message {stage: s} and nothing else, s a stage of the guidance
\* catalog (none of which is terminal), handled with a session attached.
StageOverride ==
    /\ ObjectHandled
    /\ Payload \in StagePayloads
    /\ Payload["stage"] \in DOMAIN STAGE_FOCUS_PROMPTS
    /\ Payload["stage"] \notin TerminalStages
    /\ agent_session # NoSession

\* C4: a control message {stage: s}, s a non-terminal stage of the guidance
\* catalog, handled in any prior state with a session attached, sets the
\* stage to s, dispatches exactly one guidance reply for s, publishes
\* nothing, leaves the choice alone and raises nothing.  The state after it
\* and its effects depend on nothing of the prior stage, so the same
\* message handled again (prior stage s) ends in the same state with the
\* same effects.
C4_StageOverride ==
    StageOverride =>
        /\ current_stage = Payload["stage"]
        /\ user_payment_choice = pre.choice
        /\ ShownAll(effects) =
               << <<"set_stage", "stage", Payload["stage"], NoneVal>>,
                  <<"reply", "guidance", Payload["stage"], NoneVal>> >>
        /\ ~raised

\* C4's case: {stage: kyc} handled when the stage is kyc already and a
\* choice is stored: the message is a repetition.
C4_Witness ==
    /\ StageOverride
    /\ Payload["stage"] = "kyc"
    /\ pre.stage = "kyc"
    /\ pre.choice # NoneVal
    /\ Len(Replies) = 1

\* A payment_option.selected message with next_stage "flow_complete".
SelectedFlowComplete ==
    /\ ObjectHandled
    /\ Get(Payload, "action") # "force_reply"
    /\ Get(Payload, "type") = "payment_option.selected"
    /\ Get(Payload, "next_stage") = "flow_complete"

\* The agent_message such a message carries is dispatched: it is present
\* (and not empty) and a session is attached.
MessageDispatched ==
    Truthy(Get(Payload, "agent_message")) /\ agent_session # NoSession

\* C5 as stated: a payment_option.selected message with next_stage
\* "flow_complete" makes the stage terminal whatever its choice; the
\* agent_message, when present, is the one reply dispatched; an "ended"
\* notification carrying it is published; no guidance reply is dispatched.
C5_SelectedAlwaysCompletes ==
    SelectedFlowComplete =>
        /\ current_stage \in TerminalStages
        /\ Truthy(Get(Payload, "agent_message")) =>
               ShownAll(Replies) =
                   << <<"reply", "say", Get(Payload, "agent_message"),
                        NoneVal>> >>
        /\ Len(Publishes) = 1
        /\ Publishes[1].tag = "ended"
        /\ Truthy(Get(Payload, "agent_message")) =>
               Publishes[1].msg = Get(Payload, "agent_message")
        /\ GuidanceReplies = {}

\* C5, amended: such a message never dispatches a guidance reply, never
\* publishes a stage-advanced notification and never raises, whatever its
\* choice.  Its agent_message is the one reply dispatched when it is
\* present and a session is attached; no reply is dispatched otherwise.
\* Unless that dispatch raised, the stage becomes completed and exactly one
\* "ended" notification, carrying the agent_message if there is one, is
\* published if the attached session has a room, none otherwise.  When that
\* dispatch raised, the stage is left as it was and nothing is published.
C5_SelectedFlowComplete ==
    SelectedFlowComplete =>
        /\ GuidanceReplies = {}
        /\ ~raised
        /\ ShownAll(Replies) =
               IF MessageDispatched
               THEN << <<"reply", "say", Get(Payload, "agent_message"),
                         NoneVal>> >>
               ELSE <<>>
        /\ IF MessageDispatched /\ ~Replies[1].ok
           THEN /\ current_stage = pre.stage
                /\ Publishes = <<>>
           ELSE /\ current_stage = "completed"
                /\ ShownAll(Publishes) =
                       IF HasRoom(agent_session)
                       THEN << <<"publish", "ended", "conversation_completed",
                                 IF Truthy(Get(Payload, "agent_message"))
                                 THEN Get(Payload, "agent_message")
                                 ELSE NoneVal>> >>
                       ELSE <<>>

\* C5's case: choice nbfc-emi, whose own route is nbfc_selection, with
\* next_stage flow_complete and agent_message "Thanks": the message is
\* dispatched, the stage is completed, "ended" is published with it.
C5_Witness ==
    /\ SelectedFlowComplete
    /\ Payload["choice"] = "nbfc-emi"
    /\ user_payment_choice = "nbfc_emi"
    /\ current_stage = "completed"
    /\ Len(Replies) = 1
    /\ Replies[1].arg = "Thanks"
    /\ Len(Publishes) = 1
    /\ Publishes[1].msg = "Thanks"

\* C6: a turn-completed event handled at a terminal stage dispatches no
\* guidance reply and leaves stage and choice as they were, whatever the
\* transcript.
C6_TerminalTurn ==
    (TurnHandled /\ pre.stage \in TerminalStages) =>
        /\ GuidanceReplies = {}
        /\ current_stage = pre.stage
        /\ user_payment_choice = pre.choice

\* C6's case: at stage completed, with a choice stored, a transcript that
\* names another payment option is answered by one reply.
C6_Witness ==
    /\ TurnHandled
    /\ pre.stage = "completed"
    /\ SpokenChoice # NoneVal
    /\ pre.choice # NoneVal
    /\ SpokenChoice # pre.choice
    /\ Len(Replies) = 1

\* A control message that cannot be decoded as JSON.
UndecodableHandled ==
    ev.kind = "data" /\ ev.data.form \in {"undecodable", "not_json"}

\* C7: a control message that cannot be decoded as JSON raises nothing out
\* of the handler, leaves stage and choice as they were, dispatches no
\* reply and publishes nothing.
C7_MalformedIsDropped ==
    UndecodableHandled =>
        /\ ~raised
        /\ current_stage = pre.stage
        /\ user_payment_choice = pre.choice
        /\ effects = <<>>

\* C7's case: such a message arrives after stage and choice were set.
C7_Witness ==
    /\ UndecodableHandled
    /\ pre.stage = "nbfc_selection"
    /\ pre.choice = "nbfc_emi"
    /\ agent_session # NoSession

\* The frontend tokens the normalizer knows.
KnownTokens ==
    {"credit-card", "credit-card-emi", "full-payment", "nbfc-emi",
     "0%-interest-loan-with-nbfc-(emi)"}

\* A control message {payment_choice: t} with t none of the known tokens.
UnknownChoiceReceived ==
    /\ ObjectHandled
    /\ Payload \in PaymentChoicePayloads
    /\ Payload["payment_choice"] \notin KnownTokens

\* C8: a control message {payment_choice: t} whose token matches none of
\* the known tokens leaves stage and choice as they were and runs no
\* payment transition (no reply, no notification, no stage write), also
\* when a choice was stored by an earlier event.
C8_UnknownTokenIsIgnored ==
    UnknownChoiceReceived =>
        /\ current_stage = pre.stage
        /\ user_payment_choice = pre.choice
        /\ effects = <<>>

\* C9: the choice is unset or one of the three canonical choices, and once
\* set no event unsets it.
C9_ChoiceNeverUnset ==
    /\ [](user_payment_choice \in PaymentChoices \cup {NoneVal})
    /\ [][user_payment_choice # NoneVal => user_payment_choice' # NoneVal]_vars

\* C9's case: an event replaces a stored choice by another (last wins).
C9_Witness ==
    /\ ev.kind \in {"turn", "data"}
    /\ pre.choice \in PaymentChoices
    /\ user_payment_choice \in PaymentChoices
    /\ user_payment_choice # pre.choice

\* What a transition to next_stage writes as the stage.
TargetStage(next_stage) ==
    IF next_stage = "flow_complete" THEN "completed" ELSE next_stage

\* C10: a control message is handled by the first shape it matches, in the
\* order force_reply, payment_option.selected, stage, payment_choice.
\* (a) action force_reply: stage and choice stay, whatever other keys the
\*     payload carries; nothing but the re-engagement reply happens.
\* (b) type payment_option.selected with a stage key: the stage key is not
\*     applied; the stage is written only by the transition to next_stage.
\* (c) stage and payment_choice: the stage is overridden, the choice stays
\*     and no payment transition runs.
\* (d) none of the keys: nothing happens.
C10_FirstShapeWins ==
    ObjectHandled =>
        LET force == Get(Payload, "action") = "force_reply"
            selected == Get(Payload, "type") = "payment_option.selected"
            hasStage == HasKey(Payload, "stage")
            hasChoice == HasKey(Payload, "payment_choice")
        IN  /\ force =>
                /\ current_stage = pre.stage
                /\ user_payment_choice = pre.choice
                /\ \A i \in DOMAIN effects :
                       effects[i].kind = "reply" /\ effects[i].tag = "reengage"
            /\ (~force /\ selected /\ hasStage) =>
                /\ \A i \in DOMAIN StageWrites :
                       /\ Truthy(Get(Payload, "next_stage"))
                       /\ StageWrites[i].arg =
                              TargetStage(Get(Payload, "next_stage"))
                /\ \A i \in GuidanceReplies :
                       effects[i].arg = Get(Payload, "next_stage")
                /\ StageWrites = <<>> => current_stage = pre.stage
            /\ (~force /\ ~selected /\ hasStage /\ hasChoice) =>
                /\ current_stage = Payload["stage"]
                /\ user_payment_choice = pre.choice
                /\ Publishes = <<>>
                /\ \A i \in DOMAIN Replies : Replies[i].tag = "guidance"
            /\ (~force /\ ~selected /\ ~hasStage /\ ~hasChoice) =>
                /\ current_stage = pre.stage
                /\ user_payment_choice = pre.choice
                /\ effects = <<>>
                /\ ~raised

\* C10's case: a payload with action force_reply, a stage other than the
\* current one and a payment_choice token that would set another choice.
C10_Witness ==
    /\ ObjectHandled
    /\ Get(Payload, "action") = "force_reply"
    /\ HasKey(Payload, "stage")
    /\ Payload["stage"] # pre.stage
    /\ Payload["payment_choice"] = "full-payment"
    /\ pre.choice # "full_payment"
    /\ Len(Replies) = 1

\* A control message with action force_reply.
ForceReplyHandled ==
    ObjectHandled /\ Get(Payload, "action") = "force_reply"

\* C11: a force_reply control message leaves stage and choice as they were
\* and publishes nothing; it dispatches exactly one reply, the
\* re-engagement reply naming the current stage, when a session is
\* attached, and none when no session is attached.
C11_ForceReplyKeepsState ==
    ForceReplyHandled =>
        /\ current_stage = pre.stage
        /\ user_payment_choice = pre.choice
        /\ Publishes = <<>>
        /\ ShownAll(effects) =
               IF agent_session # NoSession
               THEN << <<"reply", "reengage", pre.stage, NoneVal>> >>
               ELSE <<>>

\* C11's case: force_reply at stage kyc with a choice stored and a session
\* attached is answered by one reply.
C11_Witness ==
    /\ ForceReplyHandled
    /\ pre.stage = "kyc"
    /\ pre.choice # NoneVal
    /\ agent_session # NoSession
    /\ Len(Replies) = 1

\* A turn handled at stage payment_options, and what its lower-cased
\* transcript contains.
PaymentTurn == TurnHandled /\ pre.stage = "payment_options"
SaysCredit == AnyKeywordIn(CREDIT_CARD_KEYWORDS, Lower(ev.transcript))
SaysFull == AnyKeywordIn(FULL_PAYMENT_KEYWORDS, Lower(ev.transcript))
SaysEmi == AnyKeywordIn(NBFC_EMI_KEYWORDS, Lower(ev.transcript))

\* C12: at stage payment_options the keyword groups are tried in the order
\* credit_card, full_payment, nbfc_emi and the first that matches decides:
\* a credit_card keyword gives credit_card whatever else the transcript
\* contains; a full_payment keyword without a credit_card keyword gives
\* full_payment even beside an nbfc_emi keyword; nbfc_emi keywords alone
\* give nbfc_emi; with no keyword the choice is left as it was and the
\* turn is answered by the lookup or the default reply.
C12_FirstKeywordGroupWins ==
    PaymentTurn =>
        /\ SaysCredit => user_payment_choice = "credit_card"
        /\ (~SaysCredit /\ SaysFull) => user_payment_choice = "full_payment"
        /\ (~SaysCredit /\ ~SaysFull /\ SaysEmi) =>
               user_payment_choice = "nbfc_emi"
        /\ (SaysCredit \/ SaysFull \/ SaysEmi) =>
               /\ Len(Replies) >= 1
               /\ Replies[1].tag = "say"
        /\ (~SaysCredit /\ ~SaysFull /\ ~SaysEmi) =>
               /\ user_payment_choice = pre.choice
               /\ current_stage = pre.stage
               /\ Len(Replies) >= 1
               /\ \A i \in DOMAIN Replies :
                      Replies[i].tag \in {"rag", "default"}

\* C12's case: a transcript with a full_payment and an nbfc_emi keyword
\* and no credit_card keyword, while another choice was stored.
C12_Witness ==
    /\ PaymentTurn
    /\ ~SaysCredit
    /\ SaysFull
    /\ SaysEmi
    /\ pre.choice = "nbfc_emi"
    /\ user_payment_choice = "full_payment"

\* A control message {stage: s} and nothing else, s no key of the catalog.
UnknownStageOverride ==
    /\ ObjectHandled
    /\ Payload \in StagePayloads
    /\ Payload["stage"] \notin DOMAIN STAGE_FOCUS_PROMPTS

\* C13: a control message {stage: s} with s no key of the guidance catalog
\* (an unknown or older name, or a terminal name) stores s as the stage,
\* dispatches no reply, publishes nothing and leaves the choice alone.
C13_UnknownStageStored ==
    UnknownStageOverride =>
        /\ current_stage = Payload["stage"]
        /\ user_payment_choice = pre.choice
        /\ ShownAll(effects) =
               << <<"set_stage", "stage", Payload["stage"], NoneVal>> >>
        /\ ~raised

\* C13's case: the older stage name "introduction" arrives with a session
\* attached and a choice stored.
C13_Witness ==
    /\ UnknownStageOverride
    /\ Payload["stage"] = "introduction"
    /\ agent_session # NoSession
    /\ pre.choice # NoneVal
    /\ current_stage = "introduction"

\* C14: once the stage is terminal (completed or flow_complete), the next
\* event, whatever it is, dispatches no stage-guidance reply.
C14_NoGuidanceAfterTerminal ==
    [][(ev = Idle /\ current_stage \in TerminalStages)
           => GuidanceReplies' = {}]_vars

\* A turn that reaches the RAG block: a query engine is configured, the
\* lower-cased transcript contains "?" and the payment branch was not taken.
LookupTurn ==
    /\ TurnHandled
    /\ query_engine
    /\ Contains(QUESTION_MARK, Lower(ev.transcript))
    /\ ~(pre.stage = "payment_options"
         /\ (SaysCredit \/ SaysFull \/ SaysEmi))

IsLookup(e) == e.kind = "lookup"
Lookups == SelectSeq(effects, IsLookup)

\* What every turn on the lookup path does: one lookup, made first, and
\* stage and choice left as they were.
LookupMadeFirst ==
    /\ Len(Lookups) = 1
    /\ IsLookup(effects[1])
    /\ current_stage = pre.stage
    /\ user_payment_choice = pre.choice

\* C15 as stated: on the lookup path a failed lookup ends in exactly one
\* default reply with stage and choice unchanged, and a lookup that
\* succeeded ends in the RAG reply alone, no default reply following it.
C15_RagReplyAlone ==
    LookupTurn =>
        /\ LookupMadeFirst
        /\ ShownAll(Replies) =
               IF Lookups[1].ok
               THEN << <<"reply", "rag", NoneVal, NoneVal>> >>
               ELSE << <<"reply", "default", NoneVal, NoneVal>> >>

\* C15, amended: on the lookup path a failed lookup does not escape; it
\* ends in exactly one default reply with stage and choice unchanged, and
\* the handler raises only if that default dispatch raised. After a lookup
\* that succeeded the RAG reply is dispatched; if that dispatch returns it
\* is the only reply, and if it raises the exception is caught and one
\* default reply follows.
C15_LookupTurn ==
    LookupTurn =>
        /\ LookupMadeFirst
        /\ ~Lookups[1].ok =>
               /\ ShownAll(Replies) =
                      << <<"reply", "default", NoneVal, NoneVal>> >>
               /\ raised <=> ~Replies[1].ok
        /\ Lookups[1].ok =>
               /\ Len(Replies) >= 1
               /\ Replies[1].tag = "rag"
               /\ Replies[1].ok => (Len(Replies) = 1 /\ ~raised)
               /\ ~Replies[1].ok =>
                      /\ Len(Replies) = 2
                      /\ Replies[2].tag = "default"
                      /\ raised <=> ~Replies[2].ok

\* C15's case: the lookup of a question asked at stage payment_options
\* fails and the default reply is dispatched and returns.
C15_Witness ==
    /\ LookupTurn
    /\ pre.stage = "payment_options"
    /\ ~Lookups[1].ok
    /\ Len(Replies) = 1
    /\ Replies[1].ok
    /\ ~raised

\* C16 as stated: among the effects of one event no lookup comes after a
\* reply dispatch and no reply dispatch comes after a notification.
C16_LookupReplyNotification ==
    \A i, j \in DOMAIN effects :
        i < j => /\ ~(IsReply(effects[i]) /\ IsLookup(effects[j]))
                 /\ ~(IsPublish(effects[i]) /\ IsReply(effects[j]))

\* C16, amended: among the effects of one event no lookup comes after a
\* reply dispatch, and the only reply dispatched after a notification is
\* the stage-guidance reply for the stage a "stage advanced" notification
\* announced; the agent_message reply, the RAG, the default and the
\* re-engagement reply never follow a notification.
C16_EffectOrder ==
    \A i, j \in DOMAIN effects :
        i < j =>
            /\ ~(IsReply(effects[i]) /\ IsLookup(effects[j]))
            /\ (IsPublish(effects[i]) /\ IsReply(effects[j])) =>
                   /\ effects[i].tag = "advance_stage"
                   /\ effects[j].tag = "guidance"
                   /\ effects[j].arg = effects[i].arg
                   /\ j = i + 1

\* C16's case: an agent_message reply, then the notification, then the
\* guidance reply, in one event.
C16_Witness ==
    /\ Len(effects) = 4
    /\ effects[1].tag = "say"
    /\ IsStageWrite(effects[2])
    /\ IsPublish(effects[3])
    /\ IsGuidance(effects[4])

\* An event one of whose notifications failed.
PublishFailed ==
    \E i \in DOMAIN Publishes : ~Publishes[i].ok

C18_NoFailureEscapes ==
    ev # Idle => ~raised

\* The canonical choice of a front-end token, NoneVal for any other token.
CanonicalOf(token) ==
    IF token \in {"credit-card", "credit-card-emi"} THEN "credit_card"
    ELSE IF token = "full-payment" THEN "full_payment"
    ELSE IF token \in {"nbfc-emi", "0%-interest-loan-with-nbfc-(emi)"}
         THEN "nbfc_emi"
    ELSE NoneVal

\* The choice the event handled last normalizes before its transition: the
\* spoken one for a turn, the token's for a control message, and the choice
\* stored before when the token names none.
NormalizedChoice ==
    IF TurnHandled THEN SpokenChoice
    ELSE LET token == IF Shape(Payload) = "selected"
                      THEN Get(Payload, "choice")
                      ELSE Get(Payload, "payment_choice")
         IN  IF CanonicalOf(token) # NoneVal THEN CanonicalOf(token)
             ELSE pre.choice

\* An event whose agent_message reply raised.
MessageFailed ==
    \E i \in DOMAIN effects :
        IsReply(effects[i]) /\ effects[i].tag = "say" /\ ~effects[i].ok

\* C20: when the agent_message reply of a payment transition raises, it is
\* the only effect of the event: the stage was not written and keeps its
\* value from before the event, no notification was published and no
\* guidance reply dispatched, while the choice normalized earlier in the
\* event stays stored.
C20_MessageBeforeStageWrite ==
    MessageFailed =>
        /\ Len(effects) = 1
        /\ current_stage = pre.stage
        /\ StageWrites = <<>>
        /\ Publishes = <<>>
        /\ GuidanceReplies = {}
        /\ user_payment_choice = NormalizedChoice

\* C20's case: an explicit selection of the EMI option with next_stage kyc
\* and a message, at stage payment_options with another choice stored; the
\* message dispatch raises.
C20_Witness ==
    /\ MessageFailed
    /\ ObjectHandled
    /\ Shape(Payload) = "selected"
    /\ Get(Payload, "next_stage") = "kyc"
    /\ pre.stage = "payment_options"
    /\ pre.choice = "full_payment"
    /\ user_payment_choice = "nbfc_emi"

\* The attributes after the handler of event ran alone, start to end, from
\* the attributes st, with the calls it makes ending as env says.
RunAlone(st, event, env) ==
    LET m == IF event.kind = "turn"
             THEN UserTurnCompleted(Machine(st.stage, st.choice),
                                    agent_session, env, query_engine,
                                    event.transcript)
             ELSE DataReceived(Machine(st.stage, st.choice), agent_session,
                               env, event.data)
    IN  [stage |-> m.stage, choice |-> m.choice]

\* The attributes two events can leave when one handler runs after the
\* other is over, whatever the outcomes of their calls.
OneAfterTheOther(st, first, second) ==
    LET between == { RunAlone(st, first, env) : env \in Envs }
    IN  { RunAlone(mid, second, env) : mid \in between, env \in Envs }

\* Two handlers were begun since the session last rested and both are over.
BothOver ==
    /\ Len(tasks) = 2
    /\ \A i \in DOMAIN tasks : tasks[i].pc = "done"

\* C19: when the handlers of two events are both over, stage and choice are
\* what running the two handlers one after the other, in one order or the
\* other, leaves.
C19_EventsSerialized ==
    BothOver =>
        Attributes \in OneAfterTheOther(pre, tasks[1].event, tasks[2].event)
                           \cup OneAfterTheOther(pre, tasks[2].event,
                                                 tasks[1].event)

====
